---- MODULE Spec2Model ----
(***************************************************************************)
(* Model of the three command-line clients of the repository:              *)
(*   push-workflow.js    (pushWorkflow: resolve GET, then publish PUT)     *)
(*   trigger-codeql.js   (triggerWorkflow: one dispatch POST)              *)
(*   workflow-manager.js (makeRequest, disable/enable/status/list, main)   *)
(* One invocation runs from its start to the exit of the process; the      *)
(* remote repository's workflow file persists from one invocation to the   *)
(* next.                                                                   *)
(***************************************************************************)
EXTENDS Integers, Sequences, FiniteSets

VARIABLES
    runs,          \* number of invocations started so far
    cmd,           \* operation of the current invocation
    arg,           \* workflow-manager.js: args[1], the workflow file ("" = absent)
    pc,            \* position of the current invocation
    exitCode,      \* exit status of the current invocation (Running until it ends)
    err,           \* the error caught at the top-level boundary
    res,           \* the last response (or transport failure) received
    result,        \* the value the operation returned
    netlog,        \* requests issued by the current invocation, in order
    existingFile,  \* pushWorkflow: the local `existingFile`
    getOutcome,    \* pushWorkflow: outcome of this invocation's getContent call
    requestData,   \* pushWorkflow: the PUT payload
    remoteFile,    \* remote: sha of the workflow file, NoSha when absent
    prev,          \* summary of the previous invocation
    env,           \* what the invocation finds: GITHUB_TOKEN set, local workflow file there
    stdout,        \* listWorkflows: the count and the numbered entries it prints
    dispatch,      \* triggerWorkflow: the options, the body written and its headers
    req            \* the https request in flight: its events so far and its promise

vars == <<runs, cmd, arg, pc, exitCode, err, res, result, netlog, existingFile,
          getOutcome, requestData, remoteFile, prev, env, stdout, dispatch, req>>

(***************************************************************************)
(* Bounds                                                                  *)
(***************************************************************************)
MaxRuns == 2
NumShas == 2

(***************************************************************************)
(* Values                                                                  *)
(***************************************************************************)
NoStatus == 0        \* error.status of an error that has no status property
NoSha == 0           \* remote file absent
Running == -1        \* the process has not exited yet
Shas == 1..NumShas

Statuses == {200, 201, 204, 302, 401, 403, 404, 409, 422, 500}
ConflictStatuses == {409, 422}
Workflows == {"codeql-manual.yml", "codeql.yml"}

Is2xx(statusCode) == statusCode >= 200 /\ statusCode < 300

\* the statuses octokit throws for
ErrorStatuses == {s \in Statuses : ~Is2xx(s)}
\* the 2xx statuses that carry the file object
ContentStatuses == {s \in Statuses : Is2xx(s) /\ s # 204}

\* Response texts, as sequences of lexemes.  "W" stands for the key
\* "workflows" of an object, and the lexemes after it, each one workflow
\* object, for the elements of its array.
Entries == {"a", "b"}
Bodies == { <<>>, <<"{", "}">>, <<"{", "W", "}">>, <<"null">>, <<"1">>,
            <<"<html>">>, <<"{", "W", "b", "a", "}">> }
\* the texts that come with a status that is no success
ErrorBodies == { <<>>, <<"{", "}">>, <<"<html>">> }
\* the responses of the API: a 204 has no content
Responses ==
    {[statusCode |-> 204, body |-> <<>>]}
    \cup [statusCode : ContentStatuses, body : Bodies]
    \cup [statusCode : ErrorStatuses, body : ErrorBodies]

Null == [t |-> "null", s |-> <<>>]
NoError == [name |-> "none", status |-> NoStatus, msgStatus |-> NoStatus, msgBody |-> <<>>]
NoResponse == [kind |-> "none", status |-> NoStatus, body |-> <<>>]
NoResult == [settled |-> "pending"]
NoPrev == [cmd |-> "none", arg |-> "", exitCode |-> Running]
NoOutput == [found |-> 0, lines |-> <<>>]
NoDispatch == [sent |-> FALSE]
NoRequest == [sent |-> FALSE]
\* a request that has been written and has seen no event yet
NewRequest == [sent |-> TRUE, responded |-> FALSE, statusCode |-> NoStatus, wire |-> <<>>,
               pos |-> 0, responseData |-> <<>>, ended |-> FALSE,
               promise |-> NoResult, calls |-> 0]

(***************************************************************************)
(* JSON.parse on the lexeme texts: null, a number, or an object that is    *)
(* empty or has the member workflows; every other text (the empty one      *)
(* included) is a SyntaxError.                                             *)
(***************************************************************************)
JSONparses(text) ==
    \/ text = <<"null">>
    \/ text = <<"1">>
    \/ /\ Len(text) >= 2
       /\ text[1] = "{"
       /\ text[Len(text)] = "}"
       /\ Len(text) > 2 => /\ text[2] = "W"
                           /\ \A i \in 3..(Len(text) - 1) : text[i] \in Entries

JSONparse(text) ==
    IF text = <<"null">> THEN Null
    ELSE IF text = <<"1">> THEN [t |-> "number", s |-> text]
    ELSE [t |-> "object", s |-> SubSeq(text, 2, Len(text) - 1)]

RawText(text) == [t |-> "string", s |-> text]
EmptyObject == [t |-> "object", s |-> <<>>]

\* new Error(`HTTP ${res.statusCode}: ${responseData}`): the status and the
\* body are in the message; the error has no status property.
HttpError(statusCode, responseData) ==
    [name |-> "Error", status |-> NoStatus, msgStatus |-> statusCode, msgBody |-> responseData]

\* the error of the request's 'error' event
TransportError == [name |-> "TransportError", status |-> NoStatus, msgStatus |-> NoStatus, msgBody |-> <<>>]

TypeError == [name |-> "TypeError", status |-> NoStatus, msgStatus |-> NoStatus, msgBody |-> <<>>]

Resolved(v) == [settled |-> "resolved", value |-> v]
Rejected(e) == [settled |-> "rejected", error |-> e]

(***************************************************************************)
(* workflow-manager.js                                                     *)
(***************************************************************************)
\* resolve(value) or reject(error) on a promise: only the first call settles it
Settle(promise, outcome) == IF promise.settled = "pending" THEN outcome ELSE promise

\* the callback of https.request: let responseData = ''
OnResponse(r, statusCode, body) ==
    [r EXCEPT !.responded = TRUE, !.statusCode = statusCode, !.wire = body, !.responseData = <<>>]

\* mutant: a 2xx response is resolved with its first chunk
OnData_ResolveEarly(r, chunk) ==
    [r EXCEPT !.responseData = @ \o chunk,
              !.promise = IF Is2xx(r.statusCode)
                          THEN Settle(@, Resolved([statusCode |-> r.statusCode, data |-> RawText(chunk)]))
                          ELSE @,
              !.calls = IF Is2xx(r.statusCode) THEN @ + 1 ELSE @]

\* res.on('data'): responseData += chunk
OnData(r, chunk) == [r EXCEPT !.responseData = @ \o chunk]

\* a call of resolve or reject made by the 'end' or the 'error' handler
OnSettle(r, outcome) == [r EXCEPT !.promise = Settle(@, outcome), !.calls = @ + 1]

\* mutant: the body is never parsed
MakeRequestEnd_Raw(statusCode, responseData) ==
    IF statusCode >= 200 /\ statusCode < 300
    THEN IF responseData # <<>>
         THEN Resolved([statusCode |-> statusCode, data |-> RawText(responseData)])
         ELSE Resolved([statusCode |-> statusCode, data |-> EmptyObject])
    ELSE Rejected(HttpError(statusCode, responseData))

\* mutant: only 200 counts as success
MakeRequestEnd_Only200(statusCode, responseData) ==
    IF statusCode = 200
    THEN IF responseData # <<>>
         THEN IF JSONparses(responseData)
              THEN Resolved([statusCode |-> statusCode, data |-> JSONparse(responseData)])
              ELSE Resolved([statusCode |-> statusCode, data |-> RawText(responseData)])
         ELSE Resolved([statusCode |-> statusCode, data |-> EmptyObject])
    ELSE Rejected(HttpError(statusCode, responseData))

\* makeRequest, res.on('end'): the promise's outcome for a drained response
MakeRequestEnd(statusCode, responseData) ==
    IF statusCode >= 200 /\ statusCode < 300
    THEN IF responseData # <<>>
         THEN IF JSONparses(responseData)
              THEN Resolved([statusCode |-> statusCode, data |-> JSONparse(responseData)])
              ELSE Resolved([statusCode |-> statusCode, data |-> RawText(responseData)])
         ELSE Resolved([statusCode |-> statusCode, data |-> EmptyObject])
    ELSE Rejected(HttpError(statusCode, responseData))

\* makeRequest, req.on('error')
MakeRequestError == Rejected(TransportError)

\* mutant: the catch throws a new error that drops the status
DisableWorkflow_Wrap(outcome) ==
    IF outcome.settled = "resolved" THEN Resolved(outcome.value)
    ELSE Rejected([name |-> "Error", status |-> NoStatus, msgStatus |-> NoStatus, msgBody |-> <<>>])

\* disableWorkflow after its await: returns the response, rethrows the error
DisableWorkflow(outcome) ==
    IF outcome.settled = "resolved" THEN Resolved(outcome.value) ELSE Rejected(outcome.error)

\* mutant: the catch logs and does not rethrow
EnableWorkflow_Swallow(outcome) ==
    IF outcome.settled = "resolved" THEN Resolved(outcome.value)
    ELSE Resolved([statusCode |-> NoStatus, data |-> Null])

\* enableWorkflow after its await
EnableWorkflow(outcome) ==
    IF outcome.settled = "resolved" THEN Resolved(outcome.value) ELSE Rejected(outcome.error)

\* getWorkflowStatus after its await: reading workflow.name of null throws
GetWorkflowStatus(outcome) ==
    IF outcome.settled = "resolved"
    THEN IF outcome.value.data = Null
         THEN Rejected(TypeError)
         ELSE Resolved(outcome.value)
    ELSE Rejected(outcome.error)

\* response.data.workflows: the array, when data is an object that has it
HasWorkflows(data) == data.t = "object" /\ data.s # <<>> /\ data.s[1] = "W"
WorkflowsOf(data) == Tail(data.s)

\* listWorkflows after its await: response.data.workflows must have a length
ListWorkflows(outcome) ==
    IF outcome.settled = "resolved"
    THEN IF HasWorkflows(outcome.value.data)
         THEN Resolved(outcome.value)
         ELSE Rejected(TypeError)
    ELSE Rejected(outcome.error)

\* mutant: the entries are printed last to first
ListOutput_Reversed(workflows) ==
    [found |-> Len(workflows),
     lines |-> [i \in 1..Len(workflows) |-> [number |-> i, entry |-> workflows[Len(workflows) + 1 - i]]]]

\* listWorkflows: "Found n workflow(s)" and workflows.forEach((workflow, index) => ...),
\* which prints index + 1 and the entry
ListOutput(workflows) ==
    [found |-> Len(workflows),
     lines |-> [i \in 1..Len(workflows) |-> [number |-> (i - 1) + 1, entry |-> workflows[i]]]]

\* what the operation has printed of the response
Printed(action, outcome) ==
    IF action = "list" /\ outcome.settled = "resolved" /\ HasWorkflows(outcome.value.data)
    THEN ListOutput(WorkflowsOf(outcome.value.data))
    ELSE NoOutput

\* the operation main's switch awaits
Operation(action, outcome) ==
    CASE action = "disable" -> DisableWorkflow(outcome)
      [] action = "enable" -> EnableWorkflow(outcome)
      [] action = "status" -> GetWorkflowStatus(outcome)
      [] action = "list" -> ListWorkflows(outcome)

\* main's try/catch: process.exit(1) on any error, normal end otherwise
MainExit(outcome) == IF outcome.settled = "rejected" THEN 1 ELSE 0

ManagerMethod(action) == IF action \in {"disable", "enable"} THEN "PUT" ELSE "GET"

ManagerActions == {"disable", "enable", "status", "list"}

\* the fresh locals of an invocation
Fresh ==
    /\ err' = NoError
    /\ res' = NoResponse
    /\ result' = NoResult
    /\ getOutcome' = NoResponse
    /\ requestData' = Null
    /\ stdout' = NoOutput

\* the summary of the invocation that has just ended
Finished == IF runs = 0 THEN NoPrev ELSE [cmd |-> cmd, arg |-> arg, exitCode |-> exitCode]

\* the command lines of workflow-manager.js: args[0] and args[1], "" where
\* the argument is not given
ManagerCommandLines ==
    [action : {"disable", "enable", "status", "ENABLE"}, workflowFile : Workflows \cup {""}]
    \cup [action : {"list", "List", "", "bogus"}, workflowFile : {""}]

\* action.toLowerCase()
ToLowerCase(action) ==
    CASE action = "ENABLE" -> "enable"
      [] action = "List" -> "list"
      [] OTHER -> action

\* node workflow-manager.js <action> [workflow-file], up to the request
StartManager(hasToken, action, workflowFile) ==
    /\ pc = "idle"
    /\ runs < MaxRuns
    /\ runs' = runs + 1
    /\ cmd' = ToLowerCase(action)
    /\ arg' = workflowFile
    /\ env' = [token |-> hasToken, file |-> TRUE]
    /\ Fresh
    /\ prev' = Finished
    /\ IF ~hasToken
       THEN /\ exitCode' = 1 /\ pc' = "idle" /\ netlog' = <<>>
       ELSE IF action = ""
       THEN /\ exitCode' = 0 /\ pc' = "idle" /\ netlog' = <<>>
       ELSE IF ToLowerCase(action) \notin ManagerActions
       THEN /\ exitCode' = 1 /\ pc' = "idle" /\ netlog' = <<>>
       ELSE IF ToLowerCase(action) # "list" /\ workflowFile = ""
       THEN /\ exitCode' = 1 /\ pc' = "idle" /\ netlog' = <<>>
       ELSE /\ exitCode' = Running /\ pc' = "manager_await"
            /\ netlog' = <<ManagerMethod(ToLowerCase(action))>>
    /\ dispatch' = NoDispatch
    /\ req' = IF pc' = "manager_await" THEN NewRequest ELSE NoRequest
    \* pushWorkflow's local does not exist in this process
    /\ existingFile' = Null
    /\ UNCHANGED remoteFile

\* the response arrives: the callback of https.request runs
ResponseArrives(statusCode, body) ==
    /\ pc \in {"manager_await", "trigger_await"}
    /\ ~req.responded
    /\ req' = OnResponse(req, statusCode, body)
    /\ UNCHANGED <<runs, cmd, arg, pc, exitCode, err, res, result, netlog, existingFile,
                   getOutcome, requestData, remoteFile, prev, env, stdout, dispatch>>

\* a 'data' event with the next chunk of the body
ResponseData ==
    /\ pc \in {"manager_await", "trigger_await"}
    /\ req.responded
    /\ \E n \in 1..(Len(req.wire) - req.pos) :
          req' = [OnData(req, SubSeq(req.wire, req.pos + 1, req.pos + n)) EXCEPT !.pos = @ + n]
    /\ UNCHANGED <<runs, cmd, arg, pc, exitCode, err, res, result, netlog, existingFile,
                   getOutcome, requestData, remoteFile, prev, env, stdout, dispatch>>

\* the response's 'end' event, and everything that runs after it
ManagerResponseEnd ==
    /\ pc = "manager_await"
    /\ req.responded
    /\ req.pos = Len(req.wire)
    /\ res' = [kind |-> "response", status |-> req.statusCode, body |-> req.responseData]
    /\ LET r == OnSettle([req EXCEPT !.ended = TRUE], MakeRequestEnd(req.statusCode, req.responseData))
           out == Operation(cmd, r.promise)
       IN /\ req' = r
          /\ result' = out
          /\ err' = IF out.settled = "rejected" THEN out.error ELSE NoError
          /\ exitCode' = MainExit(out)
          /\ stdout' = Printed(cmd, r.promise)
    /\ pc' = "idle"
    /\ UNCHANGED <<runs, cmd, arg, netlog, existingFile, getOutcome, requestData, remoteFile, prev, env, dispatch>>

\* the request's 'error' event, and everything that runs after it
ManagerRequestError ==
    /\ pc = "manager_await"
    /\ res' = [kind |-> "failure", status |-> NoStatus, body |-> <<>>]
    /\ LET r == OnSettle(req, MakeRequestError)
           out == Operation(cmd, r.promise)
       IN /\ req' = r
          /\ result' = out
          /\ err' = IF out.settled = "rejected" THEN out.error ELSE NoError
          /\ exitCode' = MainExit(out)
    /\ pc' = "idle"
    /\ UNCHANGED <<runs, cmd, arg, netlog, existingFile, getOutcome, requestData, remoteFile, prev, env, stdout, dispatch>>

\* an 'error' event of a request whose promise is resolved and whose process
\* has not ended yet: reject is called on the settled promise
LateRequestError ==
    /\ pc = "idle"
    /\ exitCode = 0
    /\ req.sent
    /\ req.calls = 1
    /\ req' = OnSettle(req, Rejected(TransportError))
    /\ UNCHANGED <<runs, cmd, arg, pc, exitCode, err, res, result, netlog, existingFile,
                   getOutcome, requestData, remoteFile, prev, env, stdout, dispatch>>

(***************************************************************************)
(* trigger-codeql.js                                                       *)
(***************************************************************************)
\* mutant: every 2xx status resolves
TriggerEnd_Any2xx(statusCode, responseData) ==
    IF statusCode >= 200 /\ statusCode < 300
    THEN Resolved([success |-> TRUE, statusCode |-> statusCode])
    ELSE Rejected(HttpError(statusCode, responseData))

\* triggerWorkflow, res.on('end'): 204 is the only status that resolves
TriggerEnd(statusCode, responseData) ==
    IF statusCode = 204
    THEN Resolved([success |-> TRUE, statusCode |-> statusCode])
    ELSE Rejected(HttpError(statusCode, responseData))

\* triggerWorkflow, req.on('error')
TriggerError == Rejected(TransportError)


(***************************************************************************)
(* JavaScript values and strings.  A string is a sequence of pieces: a     *)
(* piece is a run of ASCII characters or one of the named non-ASCII        *)
(* characters.                                                             *)
(***************************************************************************)
Undefined == [t |-> "undefined", v |-> <<>>]
Str(pieces) == [t |-> "string", v |-> pieces]
Bool(b) == [t |-> "boolean", v |-> IF b THEN <<"true">> ELSE <<"false">>]

\* value.toString() of a boolean or a string
ToString(value) == [t |-> "string", v |-> value.v]

NonAscii == {"e-acute", "emoji"}
\* UTF-16 code units of a piece
CodeUnits(piece) ==
    CASE piece = "e-acute" -> 1
      [] piece = "emoji" -> 2
      [] OTHER -> Len(piece)
\* UTF-8 bytes of a piece
Utf8Bytes(piece) ==
    CASE piece = "e-acute" -> 2
      [] piece = "emoji" -> 4
      [] OTHER -> Len(piece)

RECURSIVE StringLength(_)
\* data.length
StringLength(text) ==
    IF text = <<>> THEN 0 ELSE CodeUnits(Head(text)) + StringLength(Tail(text))

RECURSIVE ByteLength(_)
\* Buffer.byteLength(data), the bytes req.write(data) sends
ByteLength(text) ==
    IF text = <<>> THEN 0 ELSE Utf8Bytes(Head(text)) + ByteLength(Tail(text))

\* makeRequest: the Content-Length of a request that has data
MakeRequestContentLength(data) == ByteLength(data)

\* the command lines of trigger-codeql.js: the value after each flag,
\* Undefined where the flag is not given
NoArgs == [languages |-> Undefined, queries |-> Undefined, uploadSarif |-> Undefined, ref |-> Undefined]
TriggerArgs ==
    { NoArgs,
      [NoArgs EXCEPT !.languages = Str(<<"python">>), !.queries = Str(<<"default">>),
                     !.uploadSarif = Str(<<"true">>)],
      [NoArgs EXCEPT !.uploadSarif = Str(<<"yes">>), !.ref = Str(<<"d", "e-acute", "v">>)] }

\* main's argument loop: the values as given, --upload-sarif as value === 'true'
MainOptions(args) ==
    [languages |-> args.languages,
     queries |-> args.queries,
     uploadSarif |-> IF args.uploadSarif = Undefined THEN Undefined
                     ELSE Bool(args.uploadSarif = Str(<<"true">>)),
     ref |-> args.ref]

\* a destructuring default: taken when the option is undefined
Default(value, dflt) == IF value = Undefined THEN dflt ELSE value

\* mutant: the ref option is not read
DispatchBody_FixedRef(options) ==
    [ref |-> Str(<<"main">>),
     inputs |-> [languages |-> Default(options.languages, Str(<<"javascript-typescript,actions">>)),
                 queries |-> Default(options.queries, Str(<<"security-extended">>)),
                 upload_sarif |-> ToString(Default(options.uploadSarif, Bool(TRUE)))]]

\* triggerWorkflow: the object it serializes
DispatchBody(options) ==
    [ref |-> Default(options.ref, Str(<<"main">>)),
     inputs |-> [languages |-> Default(options.languages, Str(<<"javascript-typescript,actions">>)),
                 queries |-> Default(options.queries, Str(<<"security-extended">>)),
                 upload_sarif |-> ToString(Default(options.uploadSarif, Bool(TRUE)))]]

\* JSON.stringify of the dispatch object (its values are strings without
\* characters that are escaped)
Stringify(body) ==
    <<"{\"ref\":\"">> \o body.ref.v
    \o <<"\",\"inputs\":{\"languages\":\"">> \o body.inputs.languages.v
    \o <<"\",\"queries\":\"">> \o body.inputs.queries.v
    \o <<"\",\"upload_sarif\":\"">> \o body.inputs.upload_sarif.v
    \o <<"\"}}">>

\* triggerWorkflow: 'Content-Length': data.length
TriggerContentLength(data) == StringLength(data)

\* the request triggerWorkflow writes for the command line
Dispatch(args) ==
    LET options == MainOptions(args)
        body == DispatchBody(options)
        data == Stringify(body)
    IN [sent |-> TRUE, args |-> args, options |-> options, body |-> body, data |-> data,
        contentLength |-> TriggerContentLength(data)]

\* node trigger-codeql.js [options], up to the request
StartTrigger(hasToken, help, args) ==
    /\ pc = "idle"
    /\ runs < MaxRuns
    /\ runs' = runs + 1
    /\ cmd' = "trigger"
    /\ arg' = ""
    /\ env' = [token |-> hasToken, file |-> TRUE]
    /\ Fresh
    /\ prev' = Finished
    /\ IF ~hasToken
       THEN /\ exitCode' = 1 /\ pc' = "idle" /\ netlog' = <<>>
       ELSE IF help
       THEN /\ exitCode' = 0 /\ pc' = "idle" /\ netlog' = <<>>
       ELSE /\ exitCode' = Running /\ pc' = "trigger_await"
            /\ netlog' = <<"POST">>
    /\ dispatch' = IF hasToken /\ ~help THEN Dispatch(args) ELSE NoDispatch
    /\ req' = IF hasToken /\ ~help THEN NewRequest ELSE NoRequest
    \* pushWorkflow's local does not exist in this process
    /\ existingFile' = Null
    /\ UNCHANGED remoteFile

\* the response's 'end' event, and main's continuation
TriggerResponseEnd ==
    /\ pc = "trigger_await"
    /\ req.responded
    /\ req.pos = Len(req.wire)
    /\ res' = [kind |-> "response", status |-> req.statusCode, body |-> req.responseData]
    /\ LET r == OnSettle([req EXCEPT !.ended = TRUE], TriggerEnd(req.statusCode, req.responseData))
           out == r.promise
       IN /\ req' = r
          /\ result' = out
          /\ err' = IF out.settled = "rejected" THEN out.error ELSE NoError
          /\ exitCode' = MainExit(out)
    /\ pc' = "idle"
    /\ UNCHANGED <<runs, cmd, arg, netlog, existingFile, getOutcome, requestData, remoteFile, prev, env, stdout, dispatch>>

\* the request's 'error' event, and main's continuation
TriggerRequestError ==
    /\ pc = "trigger_await"
    /\ res' = [kind |-> "failure", status |-> NoStatus, body |-> <<>>]
    /\ LET r == OnSettle(req, TriggerError)
           out == r.promise
       IN /\ req' = r
          /\ result' = out
          /\ err' = out.error
          /\ exitCode' = MainExit(out)
    /\ pc' = "idle"
    /\ UNCHANGED <<runs, cmd, arg, netlog, existingFile, getOutcome, requestData, remoteFile, prev, env, stdout, dispatch>>

(***************************************************************************)
(* push-workflow.js                                                        *)
(***************************************************************************)
\* the error octokit throws for a response that is no success; a transport
\* failure carries no status
RequestError(status) ==
    [name |-> "RequestError", status |-> status, msgStatus |-> NoStatus, msgBody |-> <<>>]

\* mutant: existingFile outlives the invocation
InitialExistingFile_Stale(old) == old

\* let existingFile = null
InitialExistingFile(old) == Null

\* mutant: every failure status is taken for "does not exist"
ResolveCatch_AnyStatus(error) == IF error.status # NoStatus THEN "create" ELSE "throw"

\* mutant: only errors that carry another status are rethrown
ResolveCatch_StatusOnly(error) ==
    IF error.status # NoStatus /\ error.status # 404 THEN "throw" ELSE "create"

\* the catch of the existence check: 404 goes on, anything else is rethrown
ResolveCatch(error) == IF error.status = 404 THEN "create" ELSE "throw"

\* mutant: the sha is never added
PrepareRequest_NoSha(existing) ==
    IF existing # Null
    THEN [path |-> ".github/workflows/codeql-manual.yml", branch |-> "main",
          message |-> "Update CodeQL manual trigger workflow"]
    ELSE [path |-> ".github/workflows/codeql-manual.yml", branch |-> "main",
          message |-> "Add CodeQL manual trigger workflow"]

\* mutant: the message does not follow the branch
PrepareRequest_AddAlways(existing) ==
    IF existing # Null
    THEN [path |-> ".github/workflows/codeql-manual.yml", branch |-> "main",
          message |-> "Add CodeQL manual trigger workflow", sha |-> existing.sha]
    ELSE [path |-> ".github/workflows/codeql-manual.yml", branch |-> "main",
          message |-> "Add CodeQL manual trigger workflow"]

\* requestData: the message by branch, the sha only when the file exists
PrepareRequest(existing) ==
    IF existing # Null
    THEN [path |-> ".github/workflows/codeql-manual.yml", branch |-> "main",
          message |-> "Update CodeQL manual trigger workflow", sha |-> existing.sha]
    ELSE [path |-> ".github/workflows/codeql-manual.yml", branch |-> "main",
          message |-> "Add CodeQL manual trigger workflow"]

\* mutant: a PUT that failed without a status is sent again
PutCatch_RetryTransport(error) == IF error.status = NoStatus THEN "retry" ELSE "exit"

\* mutant: a conflict is retried
PutCatch_Retry(error) == IF error.status \in ConflictStatuses THEN "retry" ELSE "exit"

\* what pushWorkflow does after a failed PUT: "exit", never another request
PutCatch(error) == "exit"

\* mutant: the local file is not looked for before the requests
LocalFileCheck_Skip(localFile) == "read"

\* if (!fs.existsSync(workflowFilePath)) throw
LocalFileCheck(localFile) == IF localFile THEN "read" ELSE "throw"

\* node push-workflow.js, up to the getContent call
StartPush(hasToken, localFile) ==
    /\ pc = "idle"
    /\ runs < MaxRuns
    /\ runs' = runs + 1
    /\ cmd' = "push"
    /\ arg' = ""
    /\ env' = [token |-> hasToken, file |-> localFile]
    /\ res' = NoResponse
    /\ result' = NoResult
    /\ getOutcome' = NoResponse
    /\ requestData' = Null
    /\ stdout' = NoOutput
    /\ prev' = Finished
    /\ IF ~hasToken
       THEN /\ exitCode' = 1 /\ pc' = "idle" /\ netlog' = <<>> /\ err' = NoError
            /\ UNCHANGED existingFile
       ELSE IF LocalFileCheck(localFile) = "throw"
       THEN /\ exitCode' = 1 /\ pc' = "idle" /\ netlog' = <<>>
            /\ err' = [name |-> "Error", status |-> NoStatus, msgStatus |-> NoStatus, msgBody |-> <<>>]
            /\ UNCHANGED existingFile
       ELSE /\ exitCode' = Running /\ pc' = "push_get" /\ netlog' = <<"GET">>
            /\ err' = NoError
            /\ existingFile' = InitialExistingFile(existingFile)
    /\ dispatch' = NoDispatch
    /\ req' = NoRequest
    /\ UNCHANGED remoteFile

\* getContent returns the file: existingFile = data, then the PUT is issued
GetContentReturns(statusCode) ==
    /\ pc = "push_get"
    /\ remoteFile # NoSha
    /\ LET data == [sha |-> remoteFile]
       IN /\ getOutcome' = [kind |-> "response", status |-> statusCode, sha |-> data.sha]
          /\ existingFile' = data
          /\ requestData' = PrepareRequest(data)
    /\ netlog' = Append(netlog, "PUT")
    /\ pc' = "push_put"
    /\ UNCHANGED <<runs, cmd, arg, exitCode, err, res, result, remoteFile, prev, env, stdout, dispatch, req>>

\* getContent throws: with status 404 the PUT is issued, otherwise the outer
\* catch ends the process
GetContentThrows(status) ==
    /\ pc = "push_get"
    /\ getOutcome' = [kind |-> "failure", status |-> status]
    /\ IF ResolveCatch(RequestError(status)) = "create"
       THEN /\ requestData' = PrepareRequest(existingFile)
            /\ netlog' = Append(netlog, "PUT")
            /\ pc' = "push_put"
            /\ UNCHANGED <<exitCode, err, result>>
       ELSE /\ err' = RequestError(status)
            /\ result' = Rejected(RequestError(status))
            /\ exitCode' = 1
            /\ pc' = "idle"
            /\ UNCHANGED <<requestData, netlog>>
    /\ UNCHANGED <<runs, cmd, arg, res, existingFile, remoteFile, prev, env, stdout, dispatch, req>>

\* the remote's atomicity check of a PUT: a payload without sha creates, and
\* only where no file is; a payload with a sha updates, and only that version
PutMatches(payload, file) ==
    IF "sha" \in DOMAIN payload THEN file # NoSha /\ payload.sha = file ELSE file = NoSha

\* another writer creates, updates or deletes the remote file
OtherWriter(newFile) ==
    /\ pc \in {"push_get", "push_put"}
    /\ newFile # remoteFile
    /\ remoteFile' = newFile
    /\ UNCHANGED <<runs, cmd, arg, pc, exitCode, err, res, result, netlog, existingFile,
                   getOutcome, requestData, prev, env, stdout, dispatch, req>>

\* createOrUpdateFileContents returns: the commit is reported and the
\* function returns response.data
CreateOrUpdateReturns(newSha, hasCommit) ==
    /\ pc = "push_put"
    /\ PutMatches(requestData, remoteFile)
    /\ remoteFile' = newSha
    /\ res' = [kind |-> "response", status |-> IF remoteFile = NoSha THEN 201 ELSE 200, body |-> <<>>]
    /\ IF hasCommit
       THEN /\ result' = Resolved([sha |-> newSha])
            /\ err' = NoError
            /\ exitCode' = 0
       ELSE /\ result' = Rejected(TypeError)
            /\ err' = TypeError
            /\ exitCode' = 1
    /\ pc' = "idle"
    /\ UNCHANGED <<runs, cmd, arg, netlog, existingFile, getOutcome, requestData, prev, env, stdout, dispatch, req>>

\* createOrUpdateFileContents throws: the outer catch ends the process
CreateOrUpdateThrows(status) ==
    /\ pc = "push_put"
    /\ status \in ConflictStatuses => ~PutMatches(requestData, remoteFile)
    /\ res' = [kind |-> IF status = NoStatus THEN "failure" ELSE "response", status |-> status, body |-> <<>>]
    /\ IF PutCatch(RequestError(status)) = "exit"
       THEN /\ err' = RequestError(status)
            /\ result' = Rejected(RequestError(status))
            /\ exitCode' = 1
            /\ pc' = "idle"
            /\ UNCHANGED netlog
       ELSE /\ netlog' = Append(netlog, "PUT")
            /\ pc' = "push_put"
            /\ UNCHANGED <<err, result, exitCode>>
    /\ UNCHANGED <<runs, cmd, arg, existingFile, getOutcome, requestData, remoteFile, prev, env, stdout, dispatch, req>>

Init ==
    /\ runs = 0
    /\ cmd = "none"
    /\ arg = ""
    /\ pc = "idle"
    /\ exitCode = Running
    /\ err = NoError
    /\ res = NoResponse
    /\ result = NoResult
    /\ netlog = <<>>
    /\ existingFile = Null
    /\ getOutcome = NoResponse
    /\ requestData = Null
    /\ remoteFile \in {NoSha} \cup Shas
    /\ prev = NoPrev
    /\ env = [token |-> TRUE, file |-> TRUE]
    /\ stdout = NoOutput
    /\ dispatch = NoDispatch
    /\ req = NoRequest

Next ==
    \/ \E hasToken \in BOOLEAN, line \in ManagerCommandLines :
          StartManager(hasToken, line.action, line.workflowFile)
    \/ \E response \in Responses : ResponseArrives(response.statusCode, response.body)
    \/ ResponseData
    \/ ManagerResponseEnd
    \/ LateRequestError
    \/ ManagerRequestError
    \/ \E hasToken \in BOOLEAN, help \in BOOLEAN, args \in TriggerArgs : StartTrigger(hasToken, help, args)
    \/ TriggerResponseEnd
    \/ TriggerRequestError
    \/ \E hasToken \in BOOLEAN, localFile \in BOOLEAN : StartPush(hasToken, localFile)
    \/ \E statusCode \in ContentStatuses : GetContentReturns(statusCode)
    \/ \E status \in ErrorStatuses \cup {NoStatus} : GetContentThrows(status)
    \/ \E newFile \in {NoSha} \cup Shas : OtherWriter(newFile)
    \/ \E newSha \in Shas, hasCommit \in BOOLEAN : CreateOrUpdateReturns(newSha, hasCommit)
    \/ \E status \in ErrorStatuses \cup {NoStatus} : CreateOrUpdateThrows(status)

Spec == Init /\ [][Next]_vars

(***************************************************************************)
(* Properties                                                              *)
(***************************************************************************)
PushResolved == cmd = "push" /\ getOutcome.kind # "none"
PutIssued == cmd = "push" /\ Len(netlog) >= 2
HasSha(payload) == "sha" \in DOMAIN payload
Exited == runs > 0 /\ pc = "idle"

\* C1: in pushWorkflow's existence check a 2xx response makes the file
\* existing with its sha as token, a 404 makes it absent without token and
\* without error, and every other failure (a status that is neither 2xx nor
\* 404, or no status at all) ends the invocation with that error and
\* without a PUT.
C1_ExistenceCheck ==
    PushResolved =>
       /\ getOutcome.kind = "response" =>
             /\ existingFile = [sha |-> getOutcome.sha]
             /\ netlog = <<"GET", "PUT">>
       /\ getOutcome.kind = "failure" /\ getOutcome.status = 404 =>
             /\ existingFile = Null
             /\ netlog = <<"GET", "PUT">>
             /\ pc = "push_put" => err = NoError /\ exitCode = Running
       /\ getOutcome.kind = "failure" /\ getOutcome.status # 404 =>
             /\ netlog = <<"GET">>
             /\ requestData = Null
             /\ pc = "idle"
             /\ exitCode = 1
             /\ err = RequestError(getOutcome.status)

C1_Witness ==
    /\ PushResolved
    /\ getOutcome.kind = "failure"
    /\ getOutcome.status = 403
    /\ exitCode = 1
    /\ netlog = <<"GET">>

\* C2: whenever pushWorkflow has issued the PUT, its payload has no sha if
\* the resolve found the path absent, and has exactly the sha the resolve
\* returned if it found the path existing.
C2_TokenRoundTrip ==
    PutIssued =>
       /\ getOutcome.kind = "failure" => ~HasSha(requestData)
       /\ getOutcome.kind = "response" =>
             HasSha(requestData) /\ requestData.sha = getOutcome.sha

C2_Witness ==
    /\ PutIssued
    /\ pc = "push_put"
    /\ getOutcome.kind = "response"
    /\ HasSha(requestData)
    /\ requestData.sha = getOutcome.sha

\* C3: within an invocation the GET comes first and has completed when the
\* PUT is issued, and a sha in the payload is the one this invocation's
\* resolve observed, also when an earlier invocation observed another one.
C3_ResolveBeforePublish ==
    /\ cmd = "push" /\ netlog # <<>> => netlog[1] = "GET"
    /\ cmd = "push" /\ (\E i \in 1..Len(netlog) : netlog[i] = "PUT") =>
          /\ netlog = <<"GET", "PUT">>
          /\ getOutcome.kind # "none"
          /\ HasSha(requestData) =>
                getOutcome.kind = "response" /\ requestData.sha = getOutcome.sha
    /\ cmd = "push" /\ getOutcome.kind = "none" => requestData = Null

C3_Witness ==
    /\ runs >= 2
    /\ prev.cmd = "push"
    /\ prev.exitCode = 0
    /\ netlog = <<"GET", "PUT">>
    /\ pc = "push_put"
    /\ getOutcome.kind = "failure"
    /\ ~HasSha(requestData)

\* C4: after a resolve that failed without an HTTP status no PUT is issued
\* and the invocation has ended with exit status 1.
C4_TransportFailureStops ==
    PushResolved /\ getOutcome.kind = "failure" /\ getOutcome.status = NoStatus =>
       /\ \A i \in 1..Len(netlog) : netlog[i] # "PUT"
       /\ pc = "idle"
       /\ exitCode = 1
       /\ err.name # "none"

C4_Witness ==
    /\ PushResolved
    /\ getOutcome.kind = "failure"
    /\ getOutcome.status = NoStatus
    /\ exitCode = 1

\* C5: an invocation issues at most one PUT, and when a PUT without sha
\* settles while the remote file exists (the resolve saw it absent, another
\* writer created it) the PUT fails, the remote file stays as it is, the
\* error is propagated with its status, the process exits with 1 and no
\* further request is issued.
PutCount == Cardinality({i \in 1..Len(netlog) : netlog[i] = "PUT"})

C5_ConflictPropagated ==
    /\ [](cmd = "push" => PutCount <= 1)
    /\ [][(/\ pc = "push_put"
           /\ ~HasSha(requestData)
           /\ remoteFile # NoSha
           /\ res' # res)
          => /\ ~Is2xx(res'.status)
             /\ remoteFile' = remoteFile
             /\ err' = RequestError(res'.status)
             /\ exitCode' = 1
             /\ pc' = "idle"
             /\ netlog' = netlog]_vars

C5_Witness ==
    /\ cmd = "push"
    /\ Exited
    /\ getOutcome.kind = "failure"
    /\ getOutcome.status = 404
    /\ ~HasSha(requestData)
    /\ remoteFile # NoSha
    /\ res.status \in ConflictStatuses
    /\ err.status = res.status
    /\ exitCode = 1
    /\ netlog = <<"GET", "PUT">>

\* C6: triggerWorkflow resolves if and only if the status is 204; with any
\* other status, the other 2xx included, it rejects and the process exits
\* with 1.
C6_DispatchOnly204 ==
    cmd = "trigger" /\ res.kind = "response" =>
       /\ result.settled = "resolved" <=> res.status = 204
       /\ res.status = 204 => exitCode = 0 /\ result.value.statusCode = 204
       /\ res.status # 204 =>
             /\ result = Rejected(HttpError(res.status, res.body))
             /\ exitCode = 1

C6_Witness ==
    /\ cmd = "trigger"
    /\ res.kind = "response"
    /\ res.status \in {200, 201}
    /\ result.settled = "rejected"
    /\ exitCode = 1

\* the body makeRequest resolves with, as C7 states it
ParsedOrRaw(text) == IF JSONparses(text) THEN JSONparse(text) ELSE RawText(text)

ViaMakeRequest == cmd \in {"disable", "enable"} /\ res.kind = "response"

\* C7 as stated: makeRequest resolves every 2xx with the parsed text when
\* it parses and the raw text otherwise, the empty text included, and
\* rejects every other status with the status and the raw body.
C7_Original ==
    ViaMakeRequest =>
       /\ Is2xx(res.status) =>
             result = Resolved([statusCode |-> res.status, data |-> ParsedOrRaw(res.body)])
       /\ ~Is2xx(res.status) => result = Rejected(HttpError(res.status, res.body))

\* C7 amended: makeRequest resolves every 2xx with the empty object when
\* the text is empty, else with the parsed text when it parses and the raw
\* text otherwise, and rejects every other status with an error whose
\* message holds the status and the raw body.
C7_MakeRequestOutcome ==
    ViaMakeRequest =>
       /\ Is2xx(res.status) =>
             result = Resolved([statusCode |-> res.status,
                                data |-> IF res.body = <<>> THEN EmptyObject
                                         ELSE ParsedOrRaw(res.body)])
       /\ ~Is2xx(res.status) => result = Rejected(HttpError(res.status, res.body))

C7_Witness ==
    /\ ViaMakeRequest
    /\ res.status = 204
    /\ res.body = <<>>
    /\ result.settled = "resolved"
    /\ result.value.data = EmptyObject

\* C8: a response with status 401 or 403 to any operation ends in an error
\* that holds that same status (in its message for makeRequest and
\* triggerWorkflow, in its status property for pushWorkflow), never in a
\* success.
C8_AuthStatusPreserved ==
    /\ cmd \in ManagerActions \cup {"trigger"} /\ res.kind = "response" /\ res.status \in {401, 403} =>
          /\ result.settled = "rejected"
          /\ err.msgStatus = res.status
          /\ exitCode = 1
    /\ PushResolved /\ getOutcome.kind = "failure" /\ getOutcome.status \in {401, 403} =>
          /\ result.settled = "rejected"
          /\ err.status = getOutcome.status
          /\ exitCode = 1
    /\ cmd = "push" /\ res.kind = "response" /\ res.status \in {401, 403} =>
          /\ result.settled = "rejected"
          /\ err.status = res.status
          /\ exitCode = 1

C8_Witness ==
    /\ cmd = "disable"
    /\ res.kind = "response"
    /\ res.status = 403
    /\ err.msgStatus = 403
    /\ exitCode = 1

\* a request of the current invocation failed: transport failure or a
\* response that the operation does not accept
RequestFailed ==
    \/ res.kind = "failure"
    \/ res.kind = "response" /\ ~Is2xx(res.status)
    \/ cmd = "trigger" /\ res.kind = "response" /\ res.status # 204
    \/ cmd = "push" /\ getOutcome.kind = "failure" /\ getOutcome.status # 404

\* C9: once a request of an operation has failed or an error was raised,
\* the process has exited with 1 and the error is the one at the top-level
\* boundary; a process that issued a request exits with 0 only when its
\* operation returned a value after a 2xx response.
C9_ErrorsReachExit ==
    /\ RequestFailed => pc = "idle" /\ exitCode = 1 /\ err # NoError /\ result.settled = "rejected"
    /\ err # NoError => exitCode = 1
    /\ Exited /\ exitCode = 0 /\ netlog # <<>> =>
          /\ result.settled = "resolved"
          /\ res.kind = "response"
          /\ Is2xx(res.status)
    /\ pc # "idle" => exitCode = Running

C9_Witness ==
    /\ cmd = "status"
    /\ Exited
    /\ res.kind = "response"
    /\ res.status = 404
    /\ err = HttpError(404, res.body)
    /\ exitCode = 1

\* C10: enableWorkflow and disableWorkflow succeed on every 2xx response,
\* in every invocation: also in one that follows a successful invocation of
\* the same operation on the same workflow.
C10_EnableDisableIdempotent ==
    cmd \in {"enable", "disable"} /\ res.kind = "response" /\ Is2xx(res.status) =>
       /\ result.settled = "resolved"
       /\ result.value.statusCode = res.status
       /\ err = NoError
       /\ exitCode = 0

C10_Witness ==
    /\ runs >= 2
    /\ cmd = "enable"
    /\ prev = [cmd |-> "enable", arg |-> arg, exitCode |-> 0]
    /\ arg \in Workflows
    /\ res.kind = "response"
    /\ res.status = 204
    /\ result.settled = "resolved"
    /\ exitCode = 0

\* C11: an invocation that finds no credential, or a push that finds no
\* local workflow file, has exited with 1 and has issued no request at all.
C11_NoRequestWithoutConfiguration ==
    runs > 0 /\ (~env.token \/ (cmd = "push" /\ ~env.file)) =>
       /\ netlog = <<>>
       /\ pc = "idle"
       /\ exitCode = 1
       /\ res = NoResponse
       /\ getOutcome = NoResponse
       /\ requestData = Null
       /\ result = NoResult

C11_Witness ==
    /\ cmd = "push"
    /\ env.token
    /\ ~env.file
    /\ exitCode = 1
    /\ netlog = <<>>
    /\ err.name = "Error"

\* C14: an invocation of disable, enable, status, list or trigger that
\* reaches its operation issues exactly one request, a push issues a GET
\* and then at most one PUT, and no step of an invocation in which a request
\* has failed issues a request.
C14_NoRetry ==
    /\ [](/\ cmd \in ManagerActions \cup {"trigger"} => Len(netlog) <= 1
          /\ cmd \in ManagerActions \cup {"trigger"} /\ (pc # "idle" \/ res.kind # "none") =>
                netlog = <<IF cmd = "trigger" THEN "POST" ELSE ManagerMethod(cmd)>>
          /\ cmd = "push" => netlog \in {<<>>, <<"GET">>, <<"GET", "PUT">>}
          /\ RequestFailed => pc = "idle")
    /\ [][RequestFailed' /\ runs' = runs => netlog' = netlog]_vars

C14_Witness ==
    /\ cmd = "push"
    /\ Exited
    /\ netlog = <<"GET", "PUT">>
    /\ res.kind = "failure"
    /\ exitCode = 1

\* C16: in every PUT of pushWorkflow the message is the "Update" one
\* exactly when the payload has a sha and the "Add" one exactly when it has
\* none.
C16_MessageFollowsToken ==
    PutIssued =>
       /\ requestData.message = "Update CodeQL manual trigger workflow" <=> HasSha(requestData)
       /\ requestData.message = "Add CodeQL manual trigger workflow" <=> ~HasSha(requestData)

C16_Witness ==
    /\ PutIssued
    /\ getOutcome.kind = "failure"
    /\ getOutcome.status = 404
    /\ ~HasSha(requestData)
    /\ requestData.message = "Add CodeQL manual trigger workflow"

\* the workflow entries of a response text, in the order of the text
EntriesOf(text) == SubSeq(text, 3, Len(text) - 1)

\* C12: when listWorkflows returns, the response it returns holds the
\* entries of the response text in their order, the count it prints is
\* their number, it has printed one numbered entry for each, in the same
\* order, and it has issued one GET.
C12_ListPreservesOrder ==
    cmd = "list" /\ result.settled = "resolved" =>
       /\ netlog = <<"GET">>
       /\ result.value.data.s = <<"W">> \o EntriesOf(res.body)
       /\ stdout.found = Len(EntriesOf(res.body))
       /\ Len(stdout.lines) = Len(EntriesOf(res.body))
       /\ \A i \in 1..Len(EntriesOf(res.body)) :
             stdout.lines[i] = [number |-> i, entry |-> EntriesOf(res.body)[i]]

C12_Witness ==
    /\ cmd = "list"
    /\ result.settled = "resolved"
    /\ res.body = <<"{", "W", "b", "a", "}">>
    /\ Len(stdout.lines) = 2
    /\ stdout.lines[1].entry = "b"
    /\ stdout.lines[2].entry = "a"

\* what the command line supplies for an option, or the default in its place
Supplied(value, dflt) == IF value = Undefined THEN dflt ELSE value.v

\* C15 as stated: the dispatch body holds, for ref, languages, queries and
\* upload_sarif, the text the caller supplied, and the default where the
\* caller supplied none.
C15_Original ==
    dispatch.sent =>
       /\ dispatch.body.ref.v = Supplied(dispatch.args.ref, <<"main">>)
       /\ dispatch.body.inputs.languages.v = Supplied(dispatch.args.languages, <<"javascript-typescript,actions">>)
       /\ dispatch.body.inputs.queries.v = Supplied(dispatch.args.queries, <<"security-extended">>)
       /\ dispatch.body.inputs.upload_sarif.v = Supplied(dispatch.args.uploadSarif, <<"true">>)

\* C15 amended: ref, languages and queries are in the body as supplied,
\* with the default where none is supplied; upload_sarif is the string
\* "true" when --upload-sarif is absent or is 'true', and the string
\* "false" for every other value.
C15_DispatchBodyForwards ==
    dispatch.sent =>
       /\ dispatch.body.ref = Str(Supplied(dispatch.args.ref, <<"main">>))
       /\ dispatch.body.inputs.languages = Str(Supplied(dispatch.args.languages, <<"javascript-typescript,actions">>))
       /\ dispatch.body.inputs.queries = Str(Supplied(dispatch.args.queries, <<"security-extended">>))
       /\ dispatch.body.inputs.upload_sarif =
             Str(IF dispatch.args.uploadSarif \in {Undefined, Str(<<"true">>)}
                 THEN <<"true">> ELSE <<"false">>)

C15_Witness ==
    /\ dispatch.sent
    /\ dispatch.args.uploadSarif = Str(<<"yes">>)
    /\ dispatch.args.languages = Undefined
    /\ dispatch.body.inputs.upload_sarif = Str(<<"false">>)
    /\ dispatch.body.inputs.languages = Str(<<"javascript-typescript,actions">>)
    /\ dispatch.body.ref = dispatch.args.ref

\* C17: the Content-Length of the dispatch request is the number of bytes
\* of the UTF-8 body that is written.
C17_ContentLengthIsByteLength ==
    dispatch.sent => dispatch.contentLength = ByteLength(dispatch.data)

\* the request of this invocation has called resolve or reject
RequestSettled == req.promise.settled # "pending"

\* C13: a request issued by makeRequest or triggerWorkflow has one outcome.
\* Its promise is settled exactly when resolve or reject has been called, it
\* is resolved only after 'end', when the whole body has been collected, an
\* invocation that has finished has a settled request, the awaiting code has
\* seen a rejection as it was made, and once the promise is settled no later
\* 'data', 'end' or 'error' event changes its outcome.
C13_OneOutcome ==
    /\ [](req.sent =>
            /\ RequestSettled <=> req.calls >= 1
            /\ req.promise.settled = "resolved" =>
                  /\ req.ended
                  /\ req.pos = Len(req.wire)
                  /\ req.responseData = req.wire
            /\ req.promise.settled = "rejected" => result = req.promise
            /\ Exited => RequestSettled)
    /\ [][(req.sent /\ RequestSettled /\ runs' = runs) => req'.promise = req.promise]_vars

\* a request 'error' event has arrived after 'end' resolved the promise of a
\* body collected in several reads: reject was called and changed nothing
C13_Witness ==
    /\ req.sent
    /\ req.calls = 2
    /\ req.promise.settled = "resolved"
    /\ Len(req.responseData) >= 2
    /\ result.settled = "resolved"
    /\ exitCode = 0
====
